---- MODULE Spec2Model ----
(***************************************************************************)
(* A model of indra/explanation/pathfinding_util.py: the conversion of a   *)
(* signed-edge multigraph into a signed-node graph, the pruning pass, and  *)
(* the two path translation helpers; and of the CyJSAssembler of          *)
(* indra/assemblers/cyjs_assembler.py.                                     *)
(*                                                                         *)
(* One behaviour of the model is one call from outside the module: of      *)
(* signed_edges_to_signed_nodes on a multigraph, of prune_signed_nodes on  *)
(* a signed-node graph, or of the path helpers on their arguments. The     *)
(* variable `call` says which; `pc` is the position inside the call.       *)
(***************************************************************************)
EXTENDS Integers, Sequences, FiniteSets, TLC

VARIABLES
    call,                \* the entry point this behaviour exercises
    pc,                  \* position in the code
    graph,               \* the argument `graph` of signed_edges_to_signed_nodes
    prune_nodes,         \* the argument `prune_nodes`
    edge_signs,          \* the argument `edge_signs`
    copy_edge_data,      \* the argument `copy_edge_data`
    signed_nodes_graph,  \* the nx.DiGraph being built / pruned
    nodes_to_prune,      \* the local list of prune_signed_nodes
    iterations,          \* history: bodies of the while loop run in this prune call
    prune_input,         \* history: the graph handed to the current prune call
    prune_calls,         \* history: calls of prune_signed_nodes so far
    first_pruned,        \* history: what the first prune call returned
    path_args,           \* the arguments of path_sign_to_signed_nodes
    path_ret,            \* the outcome of path_sign_to_signed_nodes
    edge_args,           \* the arguments of signed_nodes_to_signed_edge
    edge_ret,            \* the outcome of signed_nodes_to_signed_edge
    walk,                \* a path found in signed_nodes_graph and its translation
    cyjs                 \* a CyJSAssembler object

vars == <<call, pc, graph, prune_nodes, edge_signs, copy_edge_data,
          signed_nodes_graph, nodes_to_prune, iterations, prune_input,
          prune_calls, first_pruned, path_args, path_ret, edge_args, edge_ret,
          walk, cyjs>>

graphVars == <<graph, prune_nodes, edge_signs, copy_edge_data>>
pruneVars == <<nodes_to_prune, iterations, prune_input, prune_calls, first_pruned>>
pathVars == <<path_args, path_ret, edge_args, edge_ret>>
otherVars == <<walk, cyjs>>

(***************************************************************************)
(* Bounds of the model.                                                    *)
(***************************************************************************)
\* the longest edge list of an input multigraph
MaxEdges == 2
\* the most edges of a signed-node graph handed to prune_signed_nodes directly
MaxPruneEdges == 2
\* the longest edge list of an input multigraph whose edges carry more attributes
MaxCopyEdges == 2
\* the most edges of a path that is translated back to signed edges
MaxPathLen == 2
\* the CyJSAssembler is called while its id counter is below this
MaxIds == 4
\* the most statements in the list of the CyJSAssembler
MaxStatements == 1

\* node identifiers of the graphs
NodeIds == {"A", "B", "C"}
NodeSeq == <<"A", "B", "C">>

(***************************************************************************)
(* The sign convention: + == 0, - == 1.                                    *)
(***************************************************************************)
POS == 0
NEG == 1
Polarities == {POS, NEG}

\* An empty attribute dictionary: a function with an empty domain.
EmptyDict == [k \in {} |-> 0]

\* dict.pop(key, None) leaves the dictionary without the key
DictWithout(d, key) == [k \in (DOMAIN d) \ {key} |-> d[k]]

\* dict.update: the entries of `new` override those of `old`
DictUpdate(old, new) ==
    [k \in (DOMAIN old) \cup (DOMAIN new) |->
        IF k \in DOMAIN new THEN new[k] ELSE old[k]]

(***************************************************************************)
(* Input multigraphs. An edge is [u, v, data] with data the attribute      *)
(* dictionary; graph.edges is the list graph.edges(data=True) iterates,    *)
(* which holds parallel edges as separate entries. A 'sign' attribute set  *)
(* to None is read by pop('sign', None) as a missing one, so None is       *)
(* modelled by the key's absence.                                          *)
(***************************************************************************)
\* the attribute dictionaries of the input edges, in a fixed order: no sign,
\* the two default codes and a third value
EdgeDataSeq ==
    << EmptyDict, [k \in {"sign"} |-> 0], [k \in {"sign"} |-> 1],
       [k \in {"sign"} |-> 2] >>

NumEdgeChoices == Len(NodeSeq) * Len(NodeSeq) * Len(EdgeDataSeq)

\* the c-th edge, counting by source, then target, then attributes
EdgeChoice(c) ==
    LET nd == Len(EdgeDataSeq)
        nn == Len(NodeSeq)
    IN  [u |-> NodeSeq[((c - 1) \div (nd * nn)) + 1],
         v |-> NodeSeq[(((c - 1) \div nd) % nn) + 1],
         data |-> EdgeDataSeq[((c - 1) % nd) + 1]]

\* Edge lists of at most MaxEdges edges. graph.edges() yields the edges grouped
\* by source and target, so only the lists in that order are drawn; every
\* multiset of edges appears, parallel edges with equal attributes included.
EdgeLists ==
    UNION { { [i \in 1..n |-> EdgeChoice(s[i])] :
                s \in { t \in [1..n -> 1..NumEdgeChoices] :
                          \A i \in 1..n : \A j \in 1..n : i <= j => t[i] <= t[j] } } :
            n \in 0..MaxEdges }

Endpoints(edges) ==
    { edges[i].u : i \in DOMAIN edges } \cup { edges[i].v : i \in DOMAIN edges }

\* A multigraph holds the endpoints of its edges and possibly isolated nodes.
InputGraphs ==
    { [nodes |-> ns, edges |-> es] :
        ns \in SUBSET NodeIds,
        es \in EdgeLists }

WellFormedInput(g) == Endpoints(g.edges) \subseteq g.nodes

\* the signing policies drawn for the argument edge_signs; the first is the default
DefaultEdgeSigns == [pos |-> 0, neg |-> 1]
EdgeSignsChoices == { DefaultEdgeSigns, [pos |-> 1, neg |-> 2] }

\* copy_edge_data is a bool or a set of keys
CopyFlag(b) == [kind |-> "bool", flag |-> b, keys |-> {}]
CopyKeys(ks) == [kind |-> "set", flag |-> FALSE, keys |-> ks]
CopyChoices == { CopyFlag(FALSE) }

(***************************************************************************)
(* nx.DiGraph: a set of nodes and, for each edge (s, t), one attribute     *)
(* dictionary. A signed node is the pair <<identifier, polarity>>.         *)
(***************************************************************************)
EmptyDiGraph == [nodes |-> {}, adj |-> [e \in {} |-> EmptyDict]]

Edges(g) == DOMAIN g.adj

\* DiGraph.add_nodes_from
AddNodesFrom(g, ns) == [g EXCEPT !.nodes = g.nodes \cup ns]

\* DiGraph.add_edge: adds the endpoints, and updates the attribute dictionary of
\* an edge that is already there
AddEdge(g, e) ==
    LET key == <<e.s, e.t>>
        old == IF key \in DOMAIN g.adj THEN g.adj[key] ELSE EmptyDict
    IN  [nodes |-> g.nodes \cup {e.s, e.t},
         adj |-> [k \in (DOMAIN g.adj) \cup {key} |->
                    IF k = key THEN DictUpdate(old, e.data) ELSE g.adj[k]]]

\* DiGraph.add_edges_from, over the list in order
RECURSIVE AddEdgesFrom(_, _)
AddEdgesFrom(g, edges) ==
    IF edges = <<>> THEN g
    ELSE AddEdgesFrom(AddEdge(g, Head(edges)), Tail(edges))

\* a remove_nodes_from that drops the edges of the nodes and keeps the nodes
RemoveNodesFromKeepsNodes(g, ns) ==
    [nodes |-> g.nodes,
     adj |-> [k \in { e \in DOMAIN g.adj : e[1] \notin ns /\ e[2] \notin ns } |->
                g.adj[k]]]

\* DiGraph.remove_nodes_from: the nodes go, and every edge at one of them
RemoveNodesFrom(g, ns) ==
    [nodes |-> g.nodes \ ns,
     adj |-> [k \in { e \in DOMAIN g.adj : e[1] \notin ns /\ e[2] \notin ns } |->
                g.adj[k]]]

\* DiGraph.in_degree of one node (a self loop counts)
InDegree(g, n) == Cardinality({ e \in DOMAIN g.adj : e[2] = n })

(***************************************************************************)
(* signed_edges_to_signed_nodes                                            *)
(***************************************************************************)
\* one signed node per node: the second append left out
SignedNodesOfPositiveOnly(g) == { <<n, 0>> : n \in g.nodes }

\* the two signed nodes of every node of the input graph
SignedNodesOf(g) ==
    { <<n, 0>> : n \in g.nodes } \cup { <<n, 1>> : n \in g.nodes }

\* pop('sign') on the edge's own dictionary: no deepcopy
EdgeDataPoppedInPlace(edge_data) == DictWithout(edge_data, "sign")

\* lines 52-53: what the loop leaves of an edge's dictionary in the input graph.
\* copy_dict is a deepcopy, so the pop does not reach the input.
EdgeDataAfterLoop(edge_data) == edge_data

\* the input graph after the loop over its edges
GraphAfterLoop(g) ==
    [nodes |-> g.nodes,
     edges |-> [i \in DOMAIN g.edges |->
                  [u |-> g.edges[i].u, v |-> g.edges[i].v,
                   data |-> EdgeDataAfterLoop(g.edges[i].data)]]]

\* the filter of the keys left out: a set of keys copies everything
EdgeDictAllKeys(copy_dict, ced) ==
    IF ced.kind = "bool" /\ ced.flag THEN copy_dict
    ELSE IF ced.kind = "set" THEN copy_dict
         ELSE EmptyDict

\* the attribute dictionary the derived edges of one edge carry
EdgeDict(copy_dict, ced) ==
    IF ced.kind = "bool" /\ ced.flag THEN copy_dict
    ELSE IF ced.kind = "set"
         THEN [k \in (DOMAIN copy_dict) \cap ced.keys |-> copy_dict[k]]
         ELSE EmptyDict

\* the negative branch joining (u, 1) to (v, 1) instead of (v, 0)
DerivedEdgesNegSamePolarity(e, signs, ced) ==
    IF "sign" \notin DOMAIN e.data THEN <<>>
    ELSE IF e.data["sign"] = signs.pos
         THEN << [s |-> <<e.u, 0>>, t |-> <<e.v, 0>>, data |-> EdgeDict(DictWithout(e.data, "sign"), ced)],
                 [s |-> <<e.u, 1>>, t |-> <<e.v, 1>>, data |-> EdgeDict(DictWithout(e.data, "sign"), ced)] >>
    ELSE IF e.data["sign"] = signs.neg
         THEN << [s |-> <<e.u, 0>>, t |-> <<e.v, 1>>, data |-> EdgeDict(DictWithout(e.data, "sign"), ced)],
                 [s |-> <<e.u, 1>>, t |-> <<e.v, 1>>, data |-> EdgeDict(DictWithout(e.data, "sign"), ced)] >>
    ELSE <<>>

\* `else` in place of `elif`: every sign that is not 'pos' taken for 'neg'
DerivedEdgesElse(e, signs, ced) ==
    IF "sign" \notin DOMAIN e.data THEN <<>>
    ELSE IF e.data["sign"] = signs.pos
         THEN << [s |-> <<e.u, 0>>, t |-> <<e.v, 0>>, data |-> EdgeDict(DictWithout(e.data, "sign"), ced)],
                 [s |-> <<e.u, 1>>, t |-> <<e.v, 1>>, data |-> EdgeDict(DictWithout(e.data, "sign"), ced)] >>
    ELSE << [s |-> <<e.u, 0>>, t |-> <<e.v, 1>>, data |-> EdgeDict(DictWithout(e.data, "sign"), ced)],
            [s |-> <<e.u, 1>>, t |-> <<e.v, 0>>, data |-> EdgeDict(DictWithout(e.data, "sign"), ced)] >>

\* the two branches testing the default signs 0 and 1 whatever edge_signs is
DerivedEdgesDefaultSigns(e, signs, ced) ==
    LET edge_dict == EdgeDict(DictWithout(e.data, "sign"), ced)
    IN  IF "sign" \notin DOMAIN e.data THEN <<>>
        ELSE IF e.data["sign"] = 0
             THEN << [s |-> <<e.u, 0>>, t |-> <<e.v, 0>>, data |-> edge_dict],
                     [s |-> <<e.u, 1>>, t |-> <<e.v, 1>>, data |-> edge_dict] >>
        ELSE IF e.data["sign"] = 1
             THEN << [s |-> <<e.u, 0>>, t |-> <<e.v, 1>>, data |-> edge_dict],
                     [s |-> <<e.u, 1>>, t |-> <<e.v, 0>>, data |-> edge_dict] >>
        ELSE <<>>

\* the entries one edge of the input appends to the list `edges`
DerivedEdges(e, signs, ced) ==
    LET copy_dict == DictWithout(e.data, "sign")
        edge_dict == EdgeDict(copy_dict, ced)
    IN  IF "sign" \notin DOMAIN e.data THEN <<>>
        ELSE IF e.data["sign"] = signs.pos
             THEN << [s |-> <<e.u, 0>>, t |-> <<e.v, 0>>, data |-> edge_dict],
                     [s |-> <<e.u, 1>>, t |-> <<e.v, 1>>, data |-> edge_dict] >>
        ELSE IF e.data["sign"] = signs.neg
             THEN << [s |-> <<e.u, 0>>, t |-> <<e.v, 1>>, data |-> edge_dict],
                     [s |-> <<e.u, 1>>, t |-> <<e.v, 0>>, data |-> edge_dict] >>
        ELSE <<>>

\* the list `edges` after the loop over graph.edges(data=True)
RECURSIVE DerivedEdgeList(_, _, _)
DerivedEdgeList(edges, signs, ced) ==
    IF edges = <<>> THEN <<>>
    ELSE DerivedEdges(Head(edges), signs, ced)
            \o DerivedEdgeList(Tail(edges), signs, ced)

(***************************************************************************)
(* prune_signed_nodes                                                      *)
(***************************************************************************)
\* the comprehension without its test of the polarity
NodesToPruneAnyPolarity(g) == { n \in g.nodes : InDegree(g, n) = 0 }

\* the list comprehension over graph.in_degree()
NodesToPrune(g) == { n \in g.nodes : InDegree(g, n) = 0 /\ n[2] = 1 }

\* an `if` in place of the `while`: one batch only
LoopConditionOnce(ntp, iters) == ntp # {} /\ iters = 0

\* the condition of the while loop
LoopCondition(ntp, iters) == ntp # {}

\* prune_signed_nodes as a function: the graph the loop ends with
RECURSIVE PruneSignedNodes(_)
PruneSignedNodes(g) ==
    IF NodesToPrune(g) = {} THEN g
    ELSE PruneSignedNodes(RemoveNodesFrom(g, NodesToPrune(g)))

\* signed_edges_to_signed_nodes as a function: the graph it returns
SignedEdgesToSignedNodes(g, prune, signs, ced) ==
    LET with_nodes == AddNodesFrom(EmptyDiGraph, SignedNodesOf(g))
        with_edges == AddEdgesFrom(with_nodes, DerivedEdgeList(g.edges, signs, ced))
    IN  IF prune THEN PruneSignedNodes(with_edges) ELSE with_edges

\* the encodings drawn for edge_signs: any two different values of 0..2
EncodingChoices == { [pos |-> a, neg |-> b] : a, b \in 0..2 } \ { [pos |-> a, neg |-> a] : a \in 0..2 }

(***************************************************************************)
(* Signed-node graphs handed to prune_signed_nodes directly: any nodes     *)
(* <<identifier, polarity>> and at most MaxPruneEdges edges between them.  *)
(***************************************************************************)
AllSignedNodes == NodeIds \X Polarities

RECURSIVE SubsetsUpTo(_, _)
SubsetsUpTo(S, k) ==
    IF k = 0 THEN { {} }
    ELSE LET R == SubsetsUpTo(S, k - 1)
         IN  R \cup { r \cup {x} : r \in R, x \in S }

PruneEdgeSets == SubsetsUpTo(AllSignedNodes \X AllSignedNodes, MaxPruneEdges)

SignedNodeGraph(ns, es) == [nodes |-> ns, adj |-> [e \in es |-> EmptyDict]]

NoGraph == [nodes |-> {}, edges |-> <<>>]

(***************************************************************************)
(* Python values of the path helpers: an int, a str (its characters) or    *)
(* None. Every value has the same three fields.                            *)
(***************************************************************************)
PyNone == [t |-> "NoneType", i |-> 0, s |-> <<>>]
PyInt(n) == [t |-> "int", i |-> n, s |-> <<>>]
PyStr(chars) == [t |-> "str", i |-> 0, s |-> chars]

Digits == <<"0", "1", "2", "3", "4", "5", "6", "7", "8", "9">>

IsDigit(c) == \E d \in DOMAIN Digits : Digits[d] = c
DigitValue(c) == (CHOOSE d \in DOMAIN Digits : Digits[d] = c) - 1

\* str.strip(): int() ignores the blanks around the literal
RECURSIVE StripLeft(_)
StripLeft(chars) ==
    IF chars # <<>> /\ Head(chars) = " " THEN StripLeft(Tail(chars)) ELSE chars

RECURSIVE StripRight(_)
StripRight(chars) ==
    IF chars # <<>> /\ chars[Len(chars)] = " "
    THEN StripRight(SubSeq(chars, 1, Len(chars) - 1))
    ELSE chars

\* the value of a string of digits, base 10
RECURSIVE DigitsValue(_)
DigitsValue(chars) ==
    IF chars = <<>> THEN 0
    ELSE 10 * DigitsValue(SubSeq(chars, 1, Len(chars) - 1))
            + DigitValue(chars[Len(chars)])

\* int(x): the integer, or the exception int() raises. A str is an optional
\* sign and one digit or more, blanks around it ignored; anything else is a
\* ValueError. None is a TypeError.
IntOf(x) ==
    IF x.t = "int" THEN [exc |-> "", val |-> x.i]
    ELSE IF x.t = "NoneType" THEN [exc |-> "TypeError", val |-> 0]
    ELSE LET body == StripRight(StripLeft(x.s))
             signed == body # <<>> /\ Head(body) \in {"+", "-"}
             digits == IF signed THEN Tail(body) ELSE body
         IN  IF digits # <<>> /\ \A k \in DOMAIN digits : IsDigit(digits[k])
             THEN [exc |-> "",
                   val |-> IF signed /\ Head(body) = "-"
                           THEN 0 - DigitsValue(digits) ELSE DigitsValue(digits)]
             ELSE [exc |-> "ValueError", val |-> 0]

\* a signed node as the path helpers see it: the tuple (name, sign)
Node(name, sign) == [name |-> name, sign |-> sign]
NoneNode == Node(PyNone, PyNone)

Returned(src, tgt) == [kind |-> "return", exc |-> "", source |-> src, target |-> tgt]
RaisedPair(exc) == [kind |-> "raise", exc |-> exc, source |-> NoneNode, target |-> NoneNode]

ReturnedTriple(u, v, sign) == [kind |-> "return", exc |-> "", u |-> u, v |-> v, sign |-> sign]
RaisedTriple(exc) == [kind |-> "raise", exc |-> exc, u |-> PyNone, v |-> PyNone, sign |-> PyNone]

\* lines 108-116: only ValueError is caught
PathSignToSignedNodes(source, target, edge_sign) ==
    LET n == IntOf(edge_sign)
    IN  IF n.exc = "ValueError" THEN Returned(NoneNode, NoneNode)
        ELSE IF n.exc # "" THEN RaisedPair(n.exc)
        ELSE IF n.val = 0
             THEN Returned(Node(source, PyInt(0)), Node(target, PyInt(0)))
             ELSE Returned(Node(source, PyInt(1)), Node(target, PyInt(0)))

\* the names of the two nodes returned in the wrong order
SignedNodesToSignedEdgeSwapped(source, target) ==
    LET a == IntOf(source.sign)
        b == IntOf(target.sign)
        exc == IF a.exc # "" THEN a.exc ELSE b.exc
    IN  IF exc = "ValueError" THEN ReturnedTriple(PyNone, PyNone, PyNone)
        ELSE IF exc # "" THEN RaisedTriple(exc)
        ELSE IF a.val = b.val
             THEN ReturnedTriple(target.name, source.name, PyInt(0))
             ELSE ReturnedTriple(target.name, source.name, PyInt(1))

\* lines 128-138: int(source_sign) is evaluated first, then int(target_sign);
\* only ValueError is caught
SignedNodesToSignedEdge(source, target) ==
    LET a == IntOf(source.sign)
        b == IntOf(target.sign)
        exc == IF a.exc # "" THEN a.exc ELSE b.exc
    IN  IF exc = "ValueError" THEN ReturnedTriple(PyNone, PyNone, PyNone)
        ELSE IF exc # "" THEN RaisedTriple(exc)
        ELSE IF a.val = b.val
             THEN ReturnedTriple(source.name, target.name, PyInt(0))
             ELSE ReturnedTriple(source.name, target.name, PyInt(1))

\* the arguments drawn for the path helpers
NameChoices == { PyStr(<<"A">>), PyStr(<<"B">>), PyInt(7) }
StrChoices ==
    { <<"0">>, <<"1">>, <<"-", "1">>, <<" ", "1", " ">>, <<"1", "0">>,
      <<"x">>, <<"1", "x">>, <<"+">>, <<>> }
SignArgChoices ==
    { PyInt(0), PyInt(1), PyInt(2), PyInt(-1), PyNone } \cup { PyStr(c) : c \in StrChoices }
PolarityArgChoices ==
    { PyInt(0), PyInt(1), PyNone, PyStr(<<"0">>), PyStr(<<"1">>), PyStr(<<"x">>) }
NodeArgChoices ==
    { Node(n, p) : n \in NameChoices \cup {PyNone}, p \in PolarityArgChoices }

NoPathArgs == [source |-> PyNone, target |-> PyNone, edge_sign |-> PyNone]
NoEdgeArgs == [source |-> NoneNode, target |-> NoneNode]

(***************************************************************************)
(* Input multigraphs whose edges carry the attributes 'weight' and 'other' *)
(* beside 'sign', for the calls that copy edge data. The nodes are A and   *)
(* B; the edge list is in any order, parallel edges included.              *)
(***************************************************************************)
\* {'sign': sg, 'weight': 5, 'other': 9} cut down to the keys given
AttributeDict(keys, sg) ==
    [k \in keys |-> IF k = "sign" THEN sg ELSE IF k = "weight" THEN 5 ELSE 9]

CopyEdgeDatas ==
    { AttributeDict(keys, sg) :
        keys \in SUBSET {"sign", "weight", "other"}, sg \in {0, 1} }

CopyEdgeChoices ==
    { [u |-> e[1], v |-> e[2], data |-> d] :
        e \in { <<"A", "B">>, <<"B", "A">> }, d \in CopyEdgeDatas }

CopyEdgeLists == UNION { [1..n -> CopyEdgeChoices] : n \in 0..MaxCopyEdges }

\* the values drawn for copy_edge_data: the two bools and some sets of keys
CopyModes ==
    { CopyFlag(FALSE), CopyFlag(TRUE), CopyKeys({"weight"}),
      CopyKeys({"sign", "weight"}), CopyKeys({}) }

\* no path yet: the path walked so far, the signed edges
\* signed_nodes_to_signed_edge gave for its steps, and the keys
\* stmts_from_indranet_path looks up for them
NoWalk == [path |-> <<>>, edges |-> <<>>, keys |-> <<>>]

\* a node of the signed-node graph as the argument of the path helpers
SignedNodeArg(n) == Node(PyStr(<<n[1]>>), PyInt(n[2]))

\* reporting.py lines 58-64, signed: the key (source[0], target[0], sign)
StmtKey(source, target) ==
    <<source[1], target[1], IF source[2] = target[2] THEN 0 ELSE 1>>

(***************************************************************************)
(* CyJSAssembler: the fields of the object, and its methods as functions   *)
(* from the object to the object they leave, with the value returned and   *)
(* the exception raised ("" for none).                                     *)
(***************************************************************************)
\* CyJSAssembler.__init__ with no statements
NewAssembler ==
    [statements |-> <<>>, edges |-> <<>>, nodes |-> <<>>,
     existing_nodes |-> [k \in {} |-> 0], id_counter |-> 0]

\* an Agent with a name, and None in the place of an agent
Agent(name) == [none |-> FALSE, name |-> name]
NoAgent == [none |-> TRUE, name |-> ""]

Activation(subj, obj, is_activation) ==
    [kind |-> "Activation", agents |-> <<subj, obj>>, is_activation |-> is_activation]
Complex(members) ==
    [kind |-> "Complex", agents |-> members, is_activation |-> FALSE]
OtherStatement ==
    [kind |-> "Phosphorylation", agents |-> <<Agent("A"), Agent("B")>>,
     is_activation |-> FALSE]

\* the statements drawn
ActivationChoices ==
    { Activation(Agent("A"), Agent("B"), TRUE), Activation(Agent("B"), Agent("A"), FALSE),
      Activation(Agent("A"), Agent("A"), TRUE),
      Activation(NoAgent, Agent("A"), TRUE), Activation(Agent("A"), NoAgent, TRUE) }
ComplexChoices ==
    { Complex(<<Agent("A"), Agent("B")>>), Complex(<<Agent("A"), Agent("A")>>),
      Complex(<<Agent("A"), Agent("B"), Agent("C")>>), Complex(<<Agent("C")>>),
      Complex(<<Agent("B"), NoAgent>>) }
StatementChoices == ActivationChoices \cup ComplexChoices \cup {OtherStatement}

\* _get_stmt_type, for the statements drawn
GetStmtType(stmt) ==
    IF stmt.kind = "Phosphorylation"
    THEN [edge_type |-> "Modification", edge_polarity |-> "positive"]
    ELSE IF stmt.kind = "Complex"
    THEN [edge_type |-> "Complex", edge_polarity |-> "none"]
    ELSE [edge_type |-> "Activation",
          edge_polarity |-> IF stmt.is_activation THEN "positive" ELSE "negative"]

\* _get_new_id
GetNewId(a) == [asm |-> [a EXCEPT !.id_counter = @ + 1], ret |-> a.id_counter]

\* `if node_id:` in place of `if node_id is not None:`
AddNodeTruthy(a, agent) ==
    IF agent.none THEN [asm |-> a, ret |-> 0, exc |-> "AttributeError"]
    ELSE IF agent.name \in DOMAIN a.existing_nodes /\ a.existing_nodes[agent.name] # 0
    THEN [asm |-> a, ret |-> a.existing_nodes[agent.name], exc |-> ""]
    ELSE LET new == GetNewId(a)
         IN  [asm |-> [new.asm EXCEPT
                          !.existing_nodes =
                              [k \in (DOMAIN @) \cup {agent.name} |->
                                  IF k = agent.name THEN new.ret ELSE @[k]],
                          !.nodes = Append(@, [id |-> new.ret, name |-> agent.name])],
              ret |-> new.ret, exc |-> ""]

\* _add_node; None has no attribute `name`
AddNode(a, agent) ==
    IF agent.none THEN [asm |-> a, ret |-> 0, exc |-> "AttributeError"]
    ELSE IF agent.name \in DOMAIN a.existing_nodes
    THEN [asm |-> a, ret |-> a.existing_nodes[agent.name], exc |-> ""]
    ELSE LET new == GetNewId(a)
         IN  [asm |-> [new.asm EXCEPT
                          !.existing_nodes =
                              [k \in (DOMAIN @) \cup {agent.name} |->
                                  IF k = agent.name THEN new.ret ELSE @[k]],
                          !.nodes = Append(@, [id |-> new.ret, name |-> agent.name])],
              ret |-> new.ret, exc |-> ""]

\* the dictionary under 'data' of an edge
EdgeData(type, id, source, target, polarity) ==
    [i |-> type, id |-> id, source |-> source, target |-> target, polarity |-> polarity]

\* _add_activation: the id of the edge is drawn before the nodes are added
AddActivation(a, stmt) ==
    LET type == GetStmtType(stmt)
        edge_id == GetNewId(a)
        source == AddNode(edge_id.asm, stmt.agents[1])
        target == AddNode(source.asm, stmt.agents[2])
    IN  IF source.exc # "" THEN [asm |-> source.asm, exc |-> source.exc]
        ELSE IF target.exc # "" THEN [asm |-> target.asm, exc |-> target.exc]
        ELSE [asm |-> [target.asm EXCEPT !.edges =
                          Append(@, EdgeData(type.edge_type, edge_id.ret, source.ret,
                                             target.ret, type.edge_polarity))],
              exc |-> ""]

\* itertools.combinations(members, 2), from the pair of positions (i, j) on
RECURSIVE Combinations(_, _, _)
Combinations(members, i, j) ==
    IF i >= Len(members) THEN <<>>
    ELSE IF j > Len(members) THEN Combinations(members, i + 1, i + 2)
    ELSE << <<members[i], members[j]>> >> \o Combinations(members, i, j + 1)

\* the loop of _add_complex over the pairs of members
RECURSIVE AddComplexEdges(_, _, _)
AddComplexEdges(a, type, pairs) ==
    IF pairs = <<>> THEN [asm |-> a, exc |-> ""]
    ELSE LET m1 == AddNode(a, Head(pairs)[1])
             m2 == AddNode(m1.asm, Head(pairs)[2])
             edge_id == GetNewId(m2.asm)
         IN  IF m1.exc # "" THEN [asm |-> m1.asm, exc |-> m1.exc]
             ELSE IF m2.exc # "" THEN [asm |-> m2.asm, exc |-> m2.exc]
             ELSE AddComplexEdges(
                      [edge_id.asm EXCEPT !.edges =
                          Append(@, EdgeData(type.edge_type, edge_id.ret, m1.ret, m2.ret,
                                             type.edge_polarity))],
                      type, Tail(pairs))

\* _add_complex
AddComplex(a, stmt) ==
    AddComplexEdges(a, GetStmtType(stmt), Combinations(stmt.agents, 1, 2))

\* the loop of make_model from the statements given on; the warning for any
\* other statement reads stmt.__class_ and raises AttributeError
RECURSIVE MakeModelFrom(_, _)
MakeModelFrom(a, stmts) ==
    IF stmts = <<>> THEN [asm |-> a, exc |-> ""]
    ELSE LET stmt == Head(stmts)
             step == IF stmt.kind = "Activation" THEN AddActivation(a, stmt)
                     ELSE IF stmt.kind = "Complex" THEN AddComplex(a, stmt)
                     ELSE [asm |-> a, exc |-> "AttributeError"]
         IN  IF step.exc # "" THEN step ELSE MakeModelFrom(step.asm, Tail(stmts))

\* make_model
MakeModel(a) == MakeModelFrom(a, a.statements)

(***************************************************************************)
(* The calls.                                                              *)
(***************************************************************************)
InitConvert ==
    /\ call = "signed_edges_to_signed_nodes"
    /\ pc = "start"
    /\ graph \in { g \in InputGraphs : WellFormedInput(g) }
    /\ prune_nodes \in BOOLEAN
    /\ edge_signs \in EdgeSignsChoices
    /\ copy_edge_data \in CopyChoices
    /\ signed_nodes_graph = EmptyDiGraph

InitPrune ==
    /\ call = "prune_signed_nodes"
    /\ pc = "prune"
    /\ graph = NoGraph
    /\ prune_nodes = TRUE
    /\ edge_signs = DefaultEdgeSigns
    /\ copy_edge_data = CopyFlag(FALSE)
    /\ \E ns \in SUBSET AllSignedNodes :
         \E es \in PruneEdgeSets :
            /\ \A e \in es : e[1] \in ns /\ e[2] \in ns
            /\ signed_nodes_graph = SignedNodeGraph(ns, es)

\* a call of path_sign_to_signed_nodes, its result handed to
\* signed_nodes_to_signed_edge
InitPathSign ==
    /\ call = "path_sign_to_signed_nodes"
    /\ pc = "path_sign"
    /\ \E src \in NameChoices, tgt \in NameChoices, sg \in SignArgChoices :
          path_args = [source |-> src, target |-> tgt, edge_sign |-> sg]
    /\ edge_args = NoEdgeArgs

\* a call of signed_nodes_to_signed_edge on any two signed nodes
InitNodesToEdge ==
    /\ call = "signed_nodes_to_signed_edge"
    /\ pc = "nodes_to_edge"
    /\ path_args = NoPathArgs
    /\ \E src \in NodeArgChoices, tgt \in NodeArgChoices :
          edge_args = [source |-> src, target |-> tgt]

InitGraphCall ==
    /\ InitConvert \/ InitPrune
    /\ path_args = NoPathArgs
    /\ edge_args = NoEdgeArgs

InitPathCall ==
    /\ InitPathSign \/ InitNodesToEdge
    /\ graph = NoGraph
    /\ prune_nodes = TRUE
    /\ edge_signs = DefaultEdgeSigns
    /\ copy_edge_data = CopyFlag(FALSE)
    /\ signed_nodes_graph = EmptyDiGraph

\* what every call starts with
InitRest ==
    /\ nodes_to_prune = {}
    /\ iterations = 0
    /\ prune_input = EmptyDiGraph
    /\ prune_calls = 0
    /\ first_pruned = EmptyDiGraph
    /\ path_ret = RaisedPair("")
    /\ edge_ret = RaisedTriple("")
    /\ walk = NoWalk
    /\ cyjs = NewAssembler

\* a call of signed_edges_to_signed_nodes on a graph with edge attributes, in
\* every mode of copy_edge_data
InitCopy ==
    /\ call = "signed_edges_to_signed_nodes"
    /\ pc = "start"
    /\ \E es \in CopyEdgeLists : graph = [nodes |-> {"A", "B"}, edges |-> es]
    /\ prune_nodes \in BOOLEAN
    /\ edge_signs = DefaultEdgeSigns
    /\ copy_edge_data \in CopyModes
    /\ signed_nodes_graph = EmptyDiGraph
    /\ path_args = NoPathArgs
    /\ edge_args = NoEdgeArgs
    /\ InitRest

\* a call of signed_edges_to_signed_nodes with the default encoding, whose
\* output is then searched for paths
InitWalk ==
    /\ InitConvert
    /\ edge_signs = DefaultEdgeSigns
    /\ path_args = NoPathArgs
    /\ edge_args = NoEdgeArgs
    /\ InitRest

\* a call of signed_edges_to_signed_nodes with any encoding of the signs
InitEncoding ==
    /\ call = "signed_edges_to_signed_nodes"
    /\ pc = "start"
    /\ graph \in { g \in InputGraphs : WellFormedInput(g) }
    /\ prune_nodes \in BOOLEAN
    /\ edge_signs \in EncodingChoices
    /\ copy_edge_data \in CopyChoices
    /\ signed_nodes_graph = EmptyDiGraph
    /\ path_args = NoPathArgs
    /\ edge_args = NoEdgeArgs
    /\ InitRest

\* a new CyJSAssembler; the functions of pathfinding_util are not called
InitCyjs ==
    /\ call = "CyJSAssembler"
    /\ pc = "assembler"
    /\ graph = NoGraph
    /\ prune_nodes = FALSE
    /\ edge_signs = DefaultEdgeSigns
    /\ copy_edge_data = CopyFlag(FALSE)
    /\ signed_nodes_graph = EmptyDiGraph
    /\ path_args = NoPathArgs
    /\ edge_args = NoEdgeArgs
    /\ InitRest

Init ==
    /\ InitGraphCall \/ InitPathCall
    /\ nodes_to_prune = {}
    /\ iterations = 0
    /\ prune_input = EmptyDiGraph
    /\ prune_calls = 0
    /\ first_pruned = EmptyDiGraph
    /\ path_ret = RaisedPair("")
    /\ edge_ret = RaisedTriple("")
    /\ walk = NoWalk
    /\ cyjs = NewAssembler

\* lines 44-49: two signed nodes per node of the input
AddNodes ==
    /\ pc = "start"
    /\ signed_nodes_graph' = AddNodesFrom(signed_nodes_graph, SignedNodesOf(graph))
    /\ pc' = "edges"
    /\ UNCHANGED <<otherVars, call, graphVars, pruneVars, pathVars>>

\* lines 50-66: the derived edges of every edge, then the choice to prune
AddEdges ==
    /\ pc = "edges"
    /\ signed_nodes_graph' =
          AddEdgesFrom(signed_nodes_graph,
                       DerivedEdgeList(graph.edges, edge_signs, copy_edge_data))
    /\ graph' = GraphAfterLoop(graph)
    /\ pc' = IF prune_nodes THEN "prune" ELSE "done"
    /\ UNCHANGED <<otherVars, call, prune_nodes, edge_signs, copy_edge_data, pruneVars,
                   pathVars>>

\* lines 71-75: the first list of nodes to prune
PruneEnter ==
    /\ pc = "prune"
    /\ prune_input' = signed_nodes_graph
    /\ nodes_to_prune' = NodesToPrune(signed_nodes_graph)
    /\ iterations' = 0
    /\ prune_calls' = prune_calls + 1
    /\ pc' = "while"
    /\ UNCHANGED <<otherVars, call, graphVars, signed_nodes_graph, first_pruned, pathVars>>

\* lines 76-81: one body of the loop
PruneBody ==
    /\ pc = "while"
    /\ LoopCondition(nodes_to_prune, iterations)
    /\ signed_nodes_graph' = RemoveNodesFrom(signed_nodes_graph, nodes_to_prune)
    /\ nodes_to_prune' = NodesToPrune(signed_nodes_graph')
    /\ iterations' = iterations + 1
    /\ UNCHANGED <<otherVars, call, pc, graphVars, prune_input, prune_calls, first_pruned,
                   pathVars>>

\* line 82 (and line 68): the pruned graph is returned
PruneReturn ==
    /\ pc = "while"
    /\ ~LoopCondition(nodes_to_prune, iterations)
    /\ pc' = "done"
    /\ UNCHANGED <<otherVars, call, graphVars, signed_nodes_graph, pruneVars, pathVars>>

\* the caller hands the pruned graph to prune_signed_nodes once more
PruneAgain ==
    /\ pc = "done"
    /\ prune_calls = 1
    /\ first_pruned' = signed_nodes_graph
    /\ pc' = "prune"
    /\ UNCHANGED <<otherVars, call, graphVars, signed_nodes_graph, nodes_to_prune, iterations,
                   prune_input, prune_calls, pathVars>>

\* lines 85-116: path_sign_to_signed_nodes; the caller hands the pair it
\* returns to signed_nodes_to_signed_edge
PathSign ==
    /\ pc = "path_sign"
    /\ path_ret' = PathSignToSignedNodes(path_args.source, path_args.target,
                                         path_args.edge_sign)
    /\ edge_args' = IF path_ret'.kind = "return"
                    THEN [source |-> path_ret'.source, target |-> path_ret'.target]
                    ELSE edge_args
    /\ pc' = IF path_ret'.kind = "return" THEN "nodes_to_edge" ELSE "raised"
    /\ UNCHANGED <<otherVars, call, graphVars, signed_nodes_graph, pruneVars, path_args, edge_ret>>

\* lines 119-138: signed_nodes_to_signed_edge
NodesToEdge ==
    /\ pc = "nodes_to_edge"
    /\ edge_ret' = SignedNodesToSignedEdge(edge_args.source, edge_args.target)
    /\ pc' = IF edge_ret'.kind = "return" THEN "done" ELSE "raised"
    /\ UNCHANGED <<otherVars, call, graphVars, signed_nodes_graph, pruneVars, path_args, path_ret,
                   edge_args>>

Next ==
    \/ AddNodes
    \/ AddEdges
    \/ PruneEnter
    \/ PruneBody
    \/ PruneReturn
    \/ PruneAgain
    \/ PathSign
    \/ NodesToEdge

Spec == Init /\ [][Next]_vars

\* the steps of one call of signed_edges_to_signed_nodes
NextConvert ==
    \/ AddNodes
    \/ AddEdges
    \/ PruneEnter
    \/ PruneBody
    \/ PruneReturn

\* a path of the returned signed-node graph starts at any of its nodes
PathStart ==
    /\ call = "signed_edges_to_signed_nodes"
    /\ pc = "done"
    /\ \E n \in signed_nodes_graph.nodes :
          walk' = [path |-> <<n>>, edges |-> <<>>, keys |-> <<>>]
    /\ pc' = "walk"
    /\ UNCHANGED <<cyjs, call, graphVars, signed_nodes_graph, pruneVars, pathVars>>

\* the path follows an edge of the graph; the step is translated by
\* signed_nodes_to_signed_edge and by the loop of stmts_from_indranet_path
PathStep ==
    /\ pc = "walk"
    /\ Len(walk.path) <= MaxPathLen
    /\ \E m \in signed_nodes_graph.nodes :
          LET source == walk.path[Len(walk.path)]
          IN  /\ <<source, m>> \in Edges(signed_nodes_graph)
              /\ walk' = [path |-> Append(walk.path, m),
                          edges |-> Append(walk.edges,
                              SignedNodesToSignedEdge(SignedNodeArg(source),
                                                      SignedNodeArg(m))),
                          keys |-> Append(walk.keys, StmtKey(source, m))]
    /\ UNCHANGED <<cyjs, call, pc, graphVars, signed_nodes_graph, pruneVars, pathVars>>

NextWalk ==
    \/ NextConvert
    \/ PathStart
    \/ PathStep

\* the conversion and the translation of the paths of its output
WalkSpec == InitWalk /\ [][NextWalk]_vars

\* add_statements, with one statement
CallAddStatements ==
    /\ pc = "assembler"
    /\ Len(cyjs.statements) < MaxStatements
    /\ \E stmt \in StatementChoices :
          cyjs' = [cyjs EXCEPT !.statements = Append(@, stmt)]
    /\ UNCHANGED <<walk, call, pc, graphVars, signed_nodes_graph, pruneVars, pathVars>>

\* make_model, to its return or to the exception that ends it
CallMakeModel ==
    /\ pc = "assembler"
    /\ cyjs.id_counter < MaxIds
    /\ cyjs' = MakeModel(cyjs).asm
    /\ UNCHANGED <<walk, call, pc, graphVars, signed_nodes_graph, pruneVars, pathVars>>

\* _add_activation
CallAddActivation ==
    /\ pc = "assembler"
    /\ cyjs.id_counter < MaxIds
    /\ \E stmt \in ActivationChoices : cyjs' = AddActivation(cyjs, stmt).asm
    /\ UNCHANGED <<walk, call, pc, graphVars, signed_nodes_graph, pruneVars, pathVars>>

\* _add_complex
CallAddComplex ==
    /\ pc = "assembler"
    /\ cyjs.id_counter < MaxIds
    /\ \E stmt \in ComplexChoices : cyjs' = AddComplex(cyjs, stmt).asm
    /\ UNCHANGED <<walk, call, pc, graphVars, signed_nodes_graph, pruneVars, pathVars>>

NextCyjs ==
    \/ CallAddStatements
    \/ CallMakeModel
    \/ CallAddActivation
    \/ CallAddComplex

\* the calls of the methods of one CyJSAssembler
CyjsSpec == InitCyjs /\ [][NextCyjs]_vars

\* the calls with any encoding of the signs
EncodingSpec == InitEncoding /\ [][NextConvert]_vars

\* the calls that copy edge data
CopySpec == InitCopy /\ [][NextConvert]_vars

(***************************************************************************)
(* Properties of signed_edges_to_signed_nodes.                             *)
(***************************************************************************)
\* the call has returned the graph as built, without the pruning pass
UnprunedOutput ==
    call = "signed_edges_to_signed_nodes" /\ pc = "done" /\ ~prune_nodes

\* the input graph has an edge u -> v whose 'sign' attribute is sg
HasSignedEdge(u, v, sg) ==
    \E i \in DOMAIN graph.edges :
        /\ graph.edges[i].u = u
        /\ graph.edges[i].v = v
        /\ "sign" \in DOMAIN graph.edges[i].data
        /\ graph.edges[i].data["sign"] = sg

\* C1: with the default encoding and no pruning, a POSITIVE edge u -> v gives
\* the edges (u,0)->(v,0) and (u,1)->(v,1), a NEGATIVE one (u,0)->(v,1) and
\* (u,1)->(v,0), and the output has no edge that does not come from an edge of
\* the input in this way.
C1_DerivedEdgesBySign ==
    (UnprunedOutput /\ edge_signs = DefaultEdgeSigns) =>
        /\ \A u \in NodeIds, v \in NodeIds :
              /\ HasSignedEdge(u, v, POS) =>
                    /\ <<<<u, 0>>, <<v, 0>>>> \in Edges(signed_nodes_graph)
                    /\ <<<<u, 1>>, <<v, 1>>>> \in Edges(signed_nodes_graph)
              /\ HasSignedEdge(u, v, NEG) =>
                    /\ <<<<u, 0>>, <<v, 1>>>> \in Edges(signed_nodes_graph)
                    /\ <<<<u, 1>>, <<v, 0>>>> \in Edges(signed_nodes_graph)
        /\ \A e \in Edges(signed_nodes_graph) :
              /\ e[1][2] \in Polarities /\ e[2][2] \in Polarities
              /\ e[1][2] = e[2][2] => HasSignedEdge(e[1][1], e[2][1], POS)
              /\ e[1][2] # e[2][2] => HasSignedEdge(e[1][1], e[2][1], NEG)

\* an unpruned output of a graph that has a POSITIVE and a NEGATIVE edge
C1_Witness ==
    /\ UnprunedOutput
    /\ edge_signs = DefaultEdgeSigns
    /\ \E u \in NodeIds, v \in NodeIds : HasSignedEdge(u, v, POS)
    /\ \E u \in NodeIds, v \in NodeIds : HasSignedEdge(u, v, NEG)
    /\ Cardinality(Edges(signed_nodes_graph)) = 4

(***************************************************************************)
(* Properties of the pruning pass.                                         *)
(***************************************************************************)
\* a call of prune_signed_nodes has returned
Pruned == pc = "done" /\ prune_calls >= 1

\* the node has an incoming edge in the graph
HasPredecessor(g, n) == \E e \in Edges(g) : e[2] = n

\* C2: after the pruning pass every NEGATIVE node left has an incoming edge, and
\* every POSITIVE node is still there: those of the graph handed to the pass
\* and, after signed_edges_to_signed_nodes, (n, 0) for every node n of the input.
C2_PrunedGraph ==
    Pruned =>
        /\ \A n \in signed_nodes_graph.nodes :
              n[2] = NEG => HasPredecessor(signed_nodes_graph, n)
        /\ \A n \in prune_input.nodes :
              n[2] = POS => n \in signed_nodes_graph.nodes
        /\ call = "signed_edges_to_signed_nodes" =>
              \A n \in graph.nodes : <<n, POS>> \in signed_nodes_graph.nodes

\* a pruning pass that removed nodes and kept a POSITIVE node without predecessor
C2_Witness ==
    /\ Pruned
    /\ prune_calls = 1
    /\ iterations >= 1
    /\ \E n \in signed_nodes_graph.nodes :
          n[2] = POS /\ ~HasPredecessor(signed_nodes_graph, n)
    /\ \E n \in signed_nodes_graph.nodes : n[2] = NEG

\* the graph of the scenario: nodes A, B, C, edges (A, B, sign=0), (B, C, sign=1)
ScenarioGraph ==
    /\ call = "signed_edges_to_signed_nodes"
    /\ edge_signs = DefaultEdgeSigns
    /\ graph.nodes = {"A", "B", "C"}
    /\ graph.edges = << [u |-> "A", v |-> "B", data |-> [k \in {"sign"} |-> 0]],
                        [u |-> "B", v |-> "C", data |-> [k \in {"sign"} |-> 1]] >>

\* the graph of the scenario before the pruning pass
ScenarioUnpruned ==
    /\ signed_nodes_graph.nodes = {"A", "B", "C"} \X {0, 1}
    /\ Edges(signed_nodes_graph) =
          { <<<<"A", 0>>, <<"B", 0>>>>, <<<<"A", 1>>, <<"B", 1>>>>,
            <<<<"B", 0>>, <<"C", 1>>>>, <<<<"B", 1>>, <<"C", 0>>>> }

\* the output is at hand unpruned: returned so, or about to be pruned
BeforePruning == UnprunedOutput \/ (pc = "prune" /\ prune_calls = 0)

\* C3 as stated: the unpruned output has 6 nodes and the 4 edges, and pruning
\* removes (A,1) with (A,1)->(B,1) only, leaving 5 nodes and 3 edges.
C3_AsStated ==
    ScenarioGraph =>
        /\ BeforePruning => ScenarioUnpruned
        /\ (Pruned /\ prune_calls = 1) =>
              /\ signed_nodes_graph.nodes = ({"A", "B", "C"} \X {0, 1}) \ { <<"A", 1>> }
              /\ Edges(signed_nodes_graph) =
                    { <<<<"A", 0>>, <<"B", 0>>>>, <<<<"B", 0>>, <<"C", 1>>>>,
                      <<<<"B", 1>>, <<"C", 0>>>> }
              /\ Cardinality(signed_nodes_graph.nodes) = 5
              /\ Cardinality(Edges(signed_nodes_graph)) = 3

\* C3 amended: the unpruned output has 6 nodes and the 4 edges; pruning removes
\* (A,1) with (A,1)->(B,1) and then (B,1) with (B,1)->(C,0), leaving the 4 nodes
\* (A,0), (B,0), (C,0), (C,1) and the 2 edges (A,0)->(B,0), (B,0)->(C,1).
C3_Scenario ==
    ScenarioGraph =>
        /\ BeforePruning => ScenarioUnpruned
        /\ (Pruned /\ prune_calls = 1) =>
              /\ signed_nodes_graph.nodes =
                    { <<"A", 0>>, <<"B", 0>>, <<"C", 0>>, <<"C", 1>> }
              /\ Edges(signed_nodes_graph) =
                    { <<<<"A", 0>>, <<"B", 0>>>>, <<<<"B", 0>>, <<"C", 1>>>> }
              /\ iterations = 2

\* the scenario's graph after its pruning pass
C3_Witness == ScenarioGraph /\ Pruned /\ prune_calls = 1

(***************************************************************************)
(* Properties of the path helpers.                                         *)
(***************************************************************************)
\* path_sign_to_signed_nodes has been called and has come to its end
PathSignCalled == call = "path_sign_to_signed_nodes" /\ pc # "path_sign"

\* C4 as stated: for the signs 0 and 1 path_sign_to_signed_nodes returns
\* ((source, 0), (target, 0)) and ((source, 0), (target, 1)): the source node
\* returned is always POSITIVE.
C4_CanonicalPair ==
    (PathSignCalled /\ path_args.edge_sign \in {PyInt(POS), PyInt(NEG)}) =>
        path_ret = Returned(Node(path_args.source, PyInt(POS)),
                            Node(path_args.target, path_args.edge_sign))

\* C5: for the signs 0 and 1, signed_nodes_to_signed_edge on the pair that
\* path_sign_to_signed_nodes(u, v, sign) returns gives the triple (u, v, sign).
C5_RoundTrip ==
    (call = "path_sign_to_signed_nodes"
        /\ path_args.edge_sign \in {PyInt(POS), PyInt(NEG)}) =>
        /\ pc # "raised"
        /\ pc = "done" =>
              edge_ret = ReturnedTriple(path_args.source, path_args.target,
                                        path_args.edge_sign)

\* the round trip of a NEGATIVE edge between two different nodes has been made
C5_Witness ==
    /\ call = "path_sign_to_signed_nodes"
    /\ pc = "done"
    /\ path_args.edge_sign = PyInt(NEG)
    /\ path_args.source # path_args.target
    /\ edge_ret.kind = "return"

\* strings that are no integer literal
NonNumeric == { <<"x">>, <<"1", "x">>, <<"+">>, <<>> }

\* the value cannot be parsed as an integer: None, or a non-numeric string
Unparseable(x) == x.t = "NoneType" \/ (x.t = "str" /\ x.s \in NonNumeric)

\* C6 as stated: neither helper raises; on an edge_sign that cannot be parsed,
\* None included, path_sign_to_signed_nodes returns ((None, None), (None, None)),
\* and on a polarity that cannot be parsed, None and the sentinel pair included,
\* signed_nodes_to_signed_edge returns (None, None, None).
C6_NeverRaises ==
    /\ pc # "raised"
    /\ (PathSignCalled /\ Unparseable(path_args.edge_sign)) =>
          path_ret = Returned(NoneNode, NoneNode)
    /\ (pc = "done" /\ call \in {"path_sign_to_signed_nodes", "signed_nodes_to_signed_edge"}
          /\ (Unparseable(edge_args.source.sign) \/ Unparseable(edge_args.target.sign))) =>
          edge_ret = ReturnedTriple(PyNone, PyNone, PyNone)

(***************************************************************************)
(* More properties of signed_edges_to_signed_nodes.                        *)
(***************************************************************************)
\* the edge of the input has a sign the policy edge_signs knows
Recognized(e) ==
    "sign" \in DOMAIN e.data /\ e.data["sign"] \in {edge_signs.pos, edge_signs.neg}

\* the two edges the docstring gives for an edge with a recognized sign
DocumentedEdges(e) ==
    IF e.data["sign"] = edge_signs.pos
    THEN { <<<<e.u, 0>>, <<e.v, 0>>>>, <<<<e.u, 1>>, <<e.v, 1>>>> }
    ELSE { <<<<e.u, 0>>, <<e.v, 1>>>>, <<<<e.u, 1>>, <<e.v, 0>>>> }

\* C7: an edge without 'sign', or with a sign that is neither edge_signs['pos']
\* nor edge_signs['neg'], adds no edge to the output and stops nothing: the
\* call returns, and the edges of the output are those of the edges with a
\* recognized sign, whatever other edges the input has.
C7_UnrecognizedSkipped ==
    /\ call = "signed_edges_to_signed_nodes" => pc # "raised"
    /\ UnprunedOutput =>
          Edges(signed_nodes_graph) =
              UNION { DocumentedEdges(graph.edges[i]) :
                        i \in { j \in DOMAIN graph.edges : Recognized(graph.edges[j]) } }

\* an unpruned output of a graph with an edge that has no sign, or an unknown
\* one, beside an edge with a recognized sign
C7_Witness ==
    /\ UnprunedOutput
    /\ \E i \in DOMAIN graph.edges : "sign" \notin DOMAIN graph.edges[i].data
    /\ \E i \in DOMAIN graph.edges : Recognized(graph.edges[i])
    /\ Cardinality(Edges(signed_nodes_graph)) = 2

\* an unpruned output of a graph with an edge whose sign the policy does not know
C7_WitnessUnknownSign ==
    /\ UnprunedOutput
    /\ \E i \in DOMAIN graph.edges :
          "sign" \in DOMAIN graph.edges[i].data /\ ~Recognized(graph.edges[i])
    /\ Edges(signed_nodes_graph) = {}

\* C8: without pruning the output has exactly the nodes (n, 0) and (n, 1) of
\* the nodes n of the input, 2 * |V| of them, whatever the edges.
C8_TwoNodesPerNode ==
    UnprunedOutput =>
        /\ signed_nodes_graph.nodes = graph.nodes \X Polarities
        /\ Cardinality(signed_nodes_graph.nodes) = 2 * Cardinality(graph.nodes)

\* an unpruned output of a graph with an isolated node and an edge
C8_Witness ==
    /\ UnprunedOutput
    /\ \E n \in graph.nodes : n \notin Endpoints(graph.edges)
    /\ Edges(signed_nodes_graph) # {}

(***************************************************************************)
(* More properties of the pruning pass.                                    *)
(***************************************************************************)
\* C9: pruning a pruned graph once more returns it with the same nodes and edges.
C9_Idempotent ==
    (pc = "done" /\ prune_calls = 2) =>
        /\ signed_nodes_graph.nodes = first_pruned.nodes
        /\ Edges(signed_nodes_graph) = Edges(first_pruned)

\* a second pruning pass has returned, after a first one that removed nodes in
\* two rounds
C9_Witness ==
    /\ pc = "done"
    /\ prune_calls = 2
    /\ call = "signed_edges_to_signed_nodes"
    /\ Cardinality(first_pruned.nodes) + 2 <= 2 * Cardinality(graph.nodes)
    /\ Edges(first_pruned) # {}

\* the NEGATIVE nodes of a graph
NegativeNodes(g) == { n \in g.nodes : n[2] = NEG }

\* some NEGATIVE node of the graph has no incoming edge
HasNegativeSource(g) == \E n \in NegativeNodes(g) : ~HasPredecessor(g, n)

\* C10: every body of the loop removes a node, the loop runs no more often than
\* the graph handed over has NEGATIVE nodes (so no more often than it has nodes),
\* it goes on while a NEGATIVE node has no incoming edge and ends when none
\* has, and the call is never stuck before it returns: with the nodes a finite
\* set that every body shrinks, the loop ends.
C10_Terminates ==
    /\ [](/\ (pc = "while" \/ Pruned) =>
                /\ iterations <= Cardinality(NegativeNodes(prune_input))
                /\ iterations <= Cardinality(prune_input.nodes)
                /\ iterations + Cardinality(signed_nodes_graph.nodes)
                      <= Cardinality(prune_input.nodes)
          /\ pc \in {"prune", "while"} => ENABLED Next)
    /\ [][/\ (pc = "while" /\ pc' = "while") =>
                /\ HasNegativeSource(signed_nodes_graph)
                /\ iterations' = iterations + 1
                /\ signed_nodes_graph'.nodes \subseteq signed_nodes_graph.nodes
                /\ Cardinality(signed_nodes_graph'.nodes)
                      < Cardinality(signed_nodes_graph.nodes)
          /\ (pc = "while" /\ pc' = "done") =>
                ~HasNegativeSource(signed_nodes_graph)]_vars

\* a pruning pass that has run its loop three times
C10_Witness == Pruned /\ iterations = 3

(***************************************************************************)
(* Properties of the edge data and of the input graph.                     *)
(***************************************************************************)
\* the list `edges` has been added to the output graph
EdgesAdded ==
    call = "signed_edges_to_signed_nodes" /\ pc \in {"prune", "while", "done"}

\* the i-th edge of the input is the only one with its source, target and sign
OnlyEdgeOfItsSign(i) ==
    \A j \in DOMAIN graph.edges :
        (/\ graph.edges[j].u = graph.edges[i].u
         /\ graph.edges[j].v = graph.edges[i].v
         /\ "sign" \in DOMAIN graph.edges[j].data
         /\ graph.edges[j].data["sign"] = graph.edges[i].data["sign"]) => j = i

\* the attributes the documentation of copy_edge_data gives a derived edge
DocumentedPayload(data, ced) ==
    LET keys == IF ced.kind = "set" THEN ((DOMAIN data) \cap ced.keys) \ {"sign"}
                ELSE IF ced.flag THEN (DOMAIN data) \ {"sign"}
                ELSE {}
    IN  [k \in keys |-> data[k]]

C12_InputUnchanged == [][graph' = graph]_vars

\* a call that copied all edge data and pruned nodes has returned, on a graph
\* with two signed edges that carry other attributes too
C12_Witness ==
    /\ call = "signed_edges_to_signed_nodes"
    /\ Pruned
    /\ iterations >= 1
    /\ copy_edge_data = CopyFlag(TRUE)
    /\ Len(graph.edges) = 2
    /\ \A i \in DOMAIN graph.edges : {"sign", "weight"} \subseteq DOMAIN graph.edges[i].data
    /\ Cardinality(signed_nodes_graph.nodes) < 2 * Cardinality(graph.nodes)

(***************************************************************************)
(* Paths of the signed-node graph and their translation to signed edges.   *)
(***************************************************************************)
\* the translation of a path: signed_nodes_to_signed_edge on its steps
Translation(path) ==
    [i \in 1..(Len(path) - 1) |->
        SignedNodesToSignedEdge(SignedNodeArg(path[i]), SignedNodeArg(path[i + 1]))]

\* the paths of n nodes in g
PathsOfLength(g, n) ==
    { q \in [1..n -> g.nodes] : \A i \in 1..(n - 1) : <<q[i], q[i + 1]>> \in Edges(g) }

\* the input graph has an edge u -> v with this sign
InputHasSignedEdge(u, v, sg) ==
    \E i \in DOMAIN graph.edges :
        /\ graph.edges[i].u = u
        /\ graph.edges[i].v = v
        /\ "sign" \in DOMAIN graph.edges[i].data
        /\ graph.edges[i].data["sign"] = sg

\* every step (n_i, p_i) -> (n_i+1, p_i+1) of the path walked is translated to
\* (n_i, n_i+1, s_i) with s_i = 0 for equal polarities and 1 otherwise, the same
\* key stmts_from_indranet_path uses, and the input graph has that signed edge
TranslationConsistent ==
    \A i \in DOMAIN walk.edges :
        LET source == walk.path[i]
            target == walk.path[i + 1]
            sg == IF source[2] = target[2] THEN POS ELSE NEG
        IN  /\ walk.edges[i] =
                  ReturnedTriple(PyStr(<<source[1]>>), PyStr(<<target[1]>>), PyInt(sg))
            /\ walk.keys[i] = <<source[1], target[1], sg>>
            /\ InputHasSignedEdge(source[1], target[1], sg)

\* C13 as stated: the translation is consistent with the converter, and no
\* other path of the signed-node graph has the translation of the path walked.
C13_AsStated ==
    (pc = "walk" /\ Len(walk.path) >= 2) =>
        /\ TranslationConsistent
        /\ \A q \in PathsOfLength(signed_nodes_graph, Len(walk.path)) :
              Translation(q) = walk.edges => q = walk.path

\* C13: the translation of every path of the signed-node graph is consistent
\* with the converter (each step gives the signed edge of the input graph it
\* was derived from), and no other path with the same first node has the same
\* translation; paths that start at the two polarities of a node can.
C13_TranslationInjectiveFromStart ==
    (pc = "walk" /\ Len(walk.path) >= 2) =>
        /\ TranslationConsistent
        /\ \A q \in PathsOfLength(signed_nodes_graph, Len(walk.path)) :
              (Translation(q) = walk.edges /\ q[1] = walk.path[1]) => q = walk.path

\* a path of two steps that changes polarity has been translated, in a pruned
\* graph that also has the path of the same names from the other polarity
C13_Witness ==
    /\ pc = "walk"
    /\ prune_nodes
    /\ Len(walk.path) = 3
    /\ walk.path[1][2] = POS
    /\ walk.path[3][2] = NEG
    /\ \E q \in PathsOfLength(signed_nodes_graph, 3) :
          q # walk.path /\ Translation(q) = walk.edges

(***************************************************************************)
(* The encoding of the signs.                                              *)
(***************************************************************************)
\* every sign of the input graph is one of the two values of edge_signs
SignsEncoded ==
    \A i \in DOMAIN graph.edges :
        "sign" \in DOMAIN graph.edges[i].data =>
            graph.edges[i].data["sign"] \in {edge_signs.pos, edge_signs.neg}

\* the same graph with the sign edge_signs['pos'] written 0 and
\* edge_signs['neg'] written 1
Recoded(g, signs) ==
    [nodes |-> g.nodes,
     edges |-> [i \in DOMAIN g.edges |->
                  IF "sign" \in DOMAIN g.edges[i].data
                  THEN [g.edges[i] EXCEPT !.data["sign"] =
                            IF @ = signs.pos THEN POS ELSE NEG]
                  ELSE g.edges[i]]]

\* the call has returned
ConvertReturned == call = "signed_edges_to_signed_nodes" /\ pc = "done"

\* C14: for an encoding {'pos': a, 'neg': b} with two different values and a
\* graph whose signs are a and b, the graph returned is the one the default
\* encoding returns for the same graph with a written 0 and b written 1.
C14_EncodingIndependent ==
    (ConvertReturned /\ SignsEncoded) =>
        signed_nodes_graph =
            SignedEdgesToSignedNodes(Recoded(graph, edge_signs), prune_nodes,
                                     DefaultEdgeSigns, copy_edge_data)

\* a pruned output for the encoding {'pos': 2, 'neg': 1} of a graph with a
\* positive and a negative edge, where the default encoding reads the graph
\* as it is differently
C14_Witness ==
    /\ ConvertReturned
    /\ SignsEncoded
    /\ prune_nodes
    /\ edge_signs = [pos |-> 2, neg |-> 1]
    /\ \E i, j \in DOMAIN graph.edges :
          /\ "sign" \in DOMAIN graph.edges[i].data
          /\ "sign" \in DOMAIN graph.edges[j].data
          /\ graph.edges[i].data["sign"] = 2
          /\ graph.edges[j].data["sign"] = 1
    /\ signed_nodes_graph #
          SignedEdgesToSignedNodes(graph, prune_nodes, DefaultEdgeSigns, copy_edge_data)

(***************************************************************************)
(* What pruning keeps.                                                     *)
(***************************************************************************)
PositiveNodes(g) == { n \in g.nodes : n[2] = POS }

\* the nodes of g that a path of g reaches from a node of S
RECURSIVE ReachableFrom(_, _)
ReachableFrom(g, S) ==
    LET T == S \cup { e[2] : e \in { f \in Edges(g) : f[1] \in S } }
    IN  IF T = S THEN S ELSE ReachableFrom(g, T)

\* C15: during and after the pruning of a graph H, every node of H that a path
\* reaches from a POSITIVE node is kept, with every edge on such a path; the
\* nodes removed are NEGATIVE and reached from no POSITIVE node; and every edge
\* of H between two nodes kept is kept, with its attributes.
C15_PruningKeepsReachable ==
    (pc = "while" \/ Pruned) =>
        LET H == prune_input
            kept == signed_nodes_graph
            reached == ReachableFrom(H, PositiveNodes(H))
        IN  /\ reached \subseteq kept.nodes
            /\ \A e \in Edges(H) : e[1] \in reached => e \in Edges(kept)
            /\ kept.nodes \subseteq H.nodes
            /\ \A n \in H.nodes \ kept.nodes : n[2] = NEG /\ n \notin reached
            /\ Edges(kept) \subseteq Edges(H)
            /\ \A e \in Edges(H) :
                  (e[1] \in kept.nodes /\ e[2] \in kept.nodes) =>
                      e \in Edges(kept) /\ kept.adj[e] = H.adj[e]

\* a pruning has removed a node and kept a NEGATIVE node that a POSITIVE node
\* reaches and a NEGATIVE node that none reaches
C15_Witness ==
    /\ Pruned
    /\ prune_input.nodes # signed_nodes_graph.nodes
    /\ \E n, m \in signed_nodes_graph.nodes :
          /\ n[2] = NEG
          /\ m[2] = NEG
          /\ n \in ReachableFrom(prune_input, PositiveNodes(prune_input))
          /\ m \notin ReachableFrom(prune_input, PositiveNodes(prune_input))

(***************************************************************************)
(* The order of the removals.                                              *)
(***************************************************************************)
\* the NEGATIVE nodes of g without an incoming edge
NegativeSources(g) == { n \in NegativeNodes(g) : ~HasPredecessor(g, n) }

\* g without one node and the edges at it
WithoutNode(g, n) ==
    [nodes |-> g.nodes \ {n},
     adj |-> [e \in { f \in Edges(g) : f[1] # n /\ f[2] # n } |-> g.adj[e]]]

\* the graphs that removing one NEGATIVE node without incoming edge at a time,
\* in any order, can end with
RECURSIVE SingleRemovalResults(_)
SingleRemovalResults(g) ==
    IF NegativeSources(g) = {} THEN {g}
    ELSE UNION { SingleRemovalResults(WithoutNode(g, n)) : n \in NegativeSources(g) }

\* the sets of nodes of g with every POSITIVE node of g in which every NEGATIVE
\* node has a predecessor of the set
ClosedNodeSets(g) ==
    { S \in SUBSET g.nodes :
        /\ PositiveNodes(g) \subseteq S
        /\ \A n \in S : n[2] = NEG => \E e \in Edges(g) : e[1] \in S /\ e[2] = n }

\* C16: the graph the batch loop ends with is the one graph that removing single
\* NEGATIVE nodes without incoming edge in any order ends with, and it is the
\* largest subgraph of the graph handed over that has all its POSITIVE nodes
\* and a predecessor for every NEGATIVE node.
C16_ScheduleIndependent ==
    Pruned =>
        /\ SingleRemovalResults(prune_input) = {signed_nodes_graph}
        /\ signed_nodes_graph.nodes \in ClosedNodeSets(prune_input)
        /\ \A S \in ClosedNodeSets(prune_input) : S \subseteq signed_nodes_graph.nodes
        /\ \A e \in Edges(prune_input) :
              (e[1] \in signed_nodes_graph.nodes /\ e[2] \in signed_nodes_graph.nodes)
                  => e \in Edges(signed_nodes_graph)

\* the loop has run twice on a graph that had two nodes to choose from for the
\* first single removal
C16_Witness ==
    /\ Pruned
    /\ iterations >= 2
    /\ Cardinality(NegativeSources(prune_input)) >= 2
    /\ signed_nodes_graph.nodes # {}

(***************************************************************************)
(* The ids of the CyJSAssembler.                                           *)
(***************************************************************************)
NodeIdsOf(a) == { a.nodes[i].id : i \in DOMAIN a.nodes }
EdgeIdsOf(a) == { a.edges[i].id : i \in DOMAIN a.edges }

\* the ids given out are different for all nodes and edges
IdsDistinct(a) ==
    /\ \A i, j \in DOMAIN a.nodes : a.nodes[i].id = a.nodes[j].id => i = j
    /\ \A i, j \in DOMAIN a.edges : a.edges[i].id = a.edges[j].id => i = j
    /\ NodeIdsOf(a) \cap EdgeIdsOf(a) = {}
    /\ \A id \in NodeIdsOf(a) \cup EdgeIdsOf(a) : id \in 0..(a.id_counter - 1)

\* one node for every name, recorded with its id in _existing_nodes
OneNodePerName(a) ==
    /\ \A i, j \in DOMAIN a.nodes : a.nodes[i].name = a.nodes[j].name => i = j
    /\ DOMAIN a.existing_nodes = { a.nodes[i].name : i \in DOMAIN a.nodes }
    /\ \A i \in DOMAIN a.nodes : a.existing_nodes[a.nodes[i].name] = a.nodes[i].id

\* the ends of every edge are ids of nodes
EdgesJoinNodes(a) ==
    \A i \in DOMAIN a.edges : {a.edges[i].source, a.edges[i].target} \subseteq NodeIdsOf(a)

\* a call keeps the nodes and the edges there are, with their ids
NodesKept(a, b) ==
    /\ Len(a.nodes) <= Len(b.nodes)
    /\ \A i \in DOMAIN a.nodes : b.nodes[i] = a.nodes[i]
    /\ Len(a.edges) <= Len(b.edges)
    /\ \A i \in DOMAIN a.edges : b.edges[i] = a.edges[i]
    /\ \A k \in DOMAIN a.existing_nodes :
          k \in DOMAIN b.existing_nodes /\ b.existing_nodes[k] = a.existing_nodes[k]

\* C17: after any calls of _add_activation, _add_complex and make_model the ids
\* of all nodes and edges are pairwise different, there is one node for every
\* agent name (a name seen again keeps its id in _existing_nodes and adds no
\* node), and the source and the target of every edge are ids of nodes.
C17_IdsAndNodes ==
    /\ [](IdsDistinct(cyjs) /\ OneNodePerName(cyjs) /\ EdgesJoinNodes(cyjs))
    /\ [][NodesKept(cyjs, cyjs')]_vars

\* the statement was assembled twice: two edges with different ids join the
\* same two nodes, one of which has the id 0
C17_Witness ==
    /\ cyjs.statements # <<>>
    /\ Len(cyjs.nodes) = 2
    /\ 0 \in NodeIdsOf(cyjs)
    /\ \E i, j \in DOMAIN cyjs.edges :
          /\ i # j
          /\ cyjs.edges[i].source = cyjs.edges[j].source
          /\ cyjs.edges[i].target = cyjs.edges[j].target
          /\ cyjs.edges[i].source # cyjs.edges[i].target

====
